---------------------------- MODULE Spec2Model ----------------------------
(***************************************************************************)
(* Balance and referral-bonus accounting of the rewards backend:           *)
(*   POST /:taskId/complete and checkReferralBonuses (routes/referrals.js) *)
(*   POST /balance/update and POST / (request withdrawal) (routes/users.js)*)
(*                                                                         *)
(* Every request is an invocation of an async handler.  A handler runs     *)
(* until its next `await` of a store call; each store call is one atomic   *)
(* step of the store, and the steps of concurrent invocations interleave.  *)
(* An update written as supabase.sql`col + x` is evaluated by the store on *)
(* the row it updates, at the moment of the update.                        *)
(*                                                                         *)
(* The rows of user_tasks, transactions, withdrawals and notifications     *)
(* held in the model are those inserted since the initial state, each      *)
(* identified by the invocation that inserted it.                          *)
(***************************************************************************)
EXTENDS Integers, FiniteSets, Sequences, TLC

\* ------------------------------------------------------------- bounds
\* Number of handler invocations (concurrent or one after another).
NProcs == 2
\* Number of store calls that may fail in one run.
MaxFaults == 1

\* ------------------------------------------------------------- constants
MINIMUM_WITHDRAWAL == 25000
\* WITHDRAWAL_FEE_PERCENTAGE = 0.10, held as a whole percentage.
WITHDRAWAL_FEE_PERCENTAGE == 10

Procs == 1..NProcs
None == "none"

\* ana referred beto at registration; ana herself was referred by nobody.
Users == {"ana", "beto"}
\* The users of SpecReferral besides Users: caro was referred by ana as beto was;
\* dani, eva and fede register during the run.
NewUsers == {"dani", "eva", "fede"}
\* The owner of a referral code (referral_code column of users).
ReferralCodeOwner(referralCode) == IF referralCode = "ANA" THEN "ana" ELSE None
\* Requests to POST /register: <<user, referralCode>>; each new user always sends
\* the same body.
RegisterInputs == { <<"dani", "ANA">>, <<"eva", "ANA">>, <<"fede", "ZZZ">> }
\* The referred_by column of users: written once, by the registration.
referred_by(u) ==
  IF u \in {"beto", "caro"} THEN "ana"
  ELSE IF \E in \in RegisterInputs : in[1] = u
  THEN ReferralCodeOwner((CHOOSE in \in RegisterInputs : in[1] = u)[2])
  ELSE None

\* The tasks table: it is only read by the handlers.  "t0" is the id of no task.
TaskIds == {"t1", "t2", "t9"}
tasks(t) ==
  CASE t = "t1" -> [reward |-> 1000, status |-> "active"]
    [] t = "t2" -> [reward |-> 2000, status |-> "active"]
    [] OTHER    -> [reward |-> 1500, status |-> "inactive"]

\* Number of tasks beto completed before the initial state (tasks outside TaskIds).
BaseCounts == {1, 2, 6, 14}

\* Requests to POST /:taskId/complete: <<user, taskId>>.
CompleteInputs ==
  { <<"ana", "t1">>, <<"beto", "t1">>, <<"beto", "t2">>, <<"beto", "t9">> }
\* Requests to POST / (request withdrawal): <<user, amount, method>>.
WithdrawalInputs ==
  { <<"ana", 20000, "nequi">>, <<"ana", 25005, "nequi">>, <<"ana", 30000, "paypal">>,
    <<"ana", 20000, "bank">>, <<"ana", 0, "bank">>, <<"beto", 25000, "nequi">> }
\* Requests to POST /balance/update: <<user, amount, type>>.
BalanceInputs ==
  { <<"ana", 5000, "add">>, <<"ana", 5000, "subtract">>, <<"beto", 5000, "subtract">>,
    <<"ana", -5000, "add">> }

VARIABLES
  users,          \* users table: balance, total_earnings, tasks_completed, referrals_count
  referrals,      \* referrals table, one row per referred user
  user_tasks,     \* user_tasks rows
  transactions,   \* transactions rows
  withdrawals,    \* withdrawals rows
  notifications,  \* notifications rows
  procs,          \* the invocations: position, request, local variables, response
  base,           \* beto's completions before the initial state
  faults          \* store calls that have failed so far

vars == <<users, referrals, user_tasks, transactions, withdrawals, notifications,
          procs, base, faults>>
store == <<users, referrals, user_tasks, transactions, withdrawals, notifications>>

RECURSIVE SumOver(_, _)
\* Sum of f[x] over the finite set S, f a function on S.
SumOver(f, S) ==
  IF S = {} THEN 0
  ELSE LET x == CHOOSE y \in S : TRUE IN f[x] + SumOver(f, S \ {x})

\* The milestone test with <= in place of <.
bonusAmountAtOrBelow(tasksCompleted, snapshot) ==
  IF tasksCompleted = 3 /\ snapshot <= 3 THEN 5000
  ELSE IF tasksCompleted = 7 /\ snapshot <= 7 THEN 4000
  ELSE IF tasksCompleted = 15 /\ snapshot <= 15 THEN 8000
  ELSE 0

\* bonusAmount of checkReferralBonuses for the count read from the user and the
\* snapshot read from the referral row.
bonusAmount(tasksCompleted, snapshot) ==
  IF tasksCompleted = 3 /\ snapshot < 3 THEN 5000
  ELSE IF tasksCompleted = 7 /\ snapshot < 7 THEN 4000
  ELSE IF tasksCompleted = 15 /\ snapshot < 15 THEN 8000
  ELSE 0

\* Bonuses already paid for a referred user whose count and snapshot are n.
PaidBefore(n) ==
  (IF n >= 3 THEN 5000 ELSE 0) + (IF n >= 7 THEN 4000 ELSE 0)
    + (IF n >= 15 THEN 8000 ELSE 0)

InitBalance(u, b) == IF u = "ana" THEN 30000 + PaidBefore(b) ELSE b * 1000

Idle ==
  [ pc |-> "idle", op |-> None, user |-> None, task |-> None, amount |-> 0,
    type |-> None, balance |-> 0, tasksCompleted |-> 0, bonusAmount |-> 0,
    result |-> None,
    \* history: the delta this invocation applied to its user's balance and to
    \* the referrer's balance, whether the completion row existed when the
    \* request arrived, and whether the balance changed between the
    \* withdrawal's check and its debit
    dOwn |-> 0, dRef |-> 0, existed |-> FALSE, raced |-> FALSE,
    \* POST /register: the code of the body and the referrer found for it
    referralCode |-> None, referrerId |-> None ]

Init ==
  /\ base \in BaseCounts
  /\ users = [ u \in Users |->
       [ balance         |-> InitBalance(u, base),
         total_earnings  |-> InitBalance(u, base),
         tasks_completed |-> IF u = "beto" THEN base ELSE 0,
         referrals_count |-> IF u = "ana" THEN 1 ELSE 0 ] ]
  /\ referrals = [ u \in {"beto"} |->
       [ bonus_earned |-> PaidBefore(base), tasks_completed |-> base ] ]
  /\ user_tasks = {}
  /\ transactions = {}
  /\ withdrawals = {}
  /\ notifications = {}
  /\ procs = [ p \in Procs |-> Idle ]
  /\ faults = 0

\* The invocation ends: its local variables are dead (a local variable is reset
\* once no later statement reads it), the response and the record of what it
\* applied stay.
Finish(pr, res) ==
  [ pr EXCEPT !.pc = "done", !.result = res, !.type = None, !.balance = 0,
              !.tasksCompleted = 0, !.bonusAmount = 0, !.referrerId = None ]

CanFail == faults < MaxFaults


\* An idle slot takes the next request; slots are taken in order.
CanStart(p) ==
  /\ procs[p].pc = "idle"
  /\ \A q \in Procs : q < p => procs[q].pc # "idle"

\* ------------------------------------------------ POST /:taskId/complete
\* The storage layer's uniqueness constraint on (user_id, task_id).
UniqueViolation(rows, u, t) ==
  \E r \in rows : r.user_id = u /\ r.task_id = t

\* if (existingUserTask) return 400
AlreadyCompletedNever(existingUserTask) == FALSE
AlreadyCompleted(existingUserTask) == existingUserTask # {}

\* if (userTaskError) throw userTaskError
ThrowsUserTaskErrorNever(userTaskError) == FALSE
ThrowsUserTaskError(userTaskError) == userTaskError

\* supabase.sql`column + x`: the store evaluates the expression on the value the
\* column holds when the update is applied.
sql(column, x) == column + x

\* The users row after the reward update.
RewardUpdate(row, reward) ==
  [ row EXCEPT !.balance = sql(row.balance, reward),
               !.total_earnings = sql(row.total_earnings, reward),
               !.tasks_completed = sql(row.tasks_completed, 1) ]

\* Check if task exists and is active: the query for id t and status active
\* returns a row.
TaskFoundAlways(t) == TRUE
TaskFound(t) == t \in TaskIds /\ tasks(t).status = "active"

\* The request in of an authenticated user arrives and the task is fetched (the
\* tasks table is never written, so this read is taken together with the arrival).
CompleteTaskRequest(p, in) ==
  /\ in[1] \in DOMAIN users
  /\ LET u == in[1]
         t == in[2]
         pr == [ procs[p] EXCEPT !.op = "completeTask", !.user = u, !.task = t,
                   !.existed = UniqueViolation(user_tasks, u, t) ]
     IN procs' = [ procs EXCEPT ![p] =
          IF ~ TaskFound(t)
          THEN Finish(pr, "TaskNotFound")
          ELSE [ pr EXCEPT !.pc = "checkExisting" ] ]
  /\ UNCHANGED <<store, base, faults>>

StartCompleteTask(p) ==
  /\ CanStart(p)
  /\ \E in \in CompleteInputs : CompleteTaskRequest(p, in)

\* Check if user already completed this task.
CheckExisting(p) ==
  /\ procs[p].pc = "checkExisting"
  /\ LET pr == procs[p]
         existingUserTask ==
           { r \in user_tasks : r.user_id = pr.user /\ r.task_id = pr.task }
     IN procs' = [ procs EXCEPT ![p] =
          IF AlreadyCompleted(existingUserTask)
          THEN Finish(pr, "AlreadyCompleted")
          ELSE [ pr EXCEPT !.pc = "insertUserTask" ] ]
  /\ UNCHANGED <<store, base, faults>>

\* Create user task record; a row the store refuses comes back as userTaskError.
InsertUserTask(p) ==
  /\ procs[p].pc = "insertUserTask"
  /\ LET pr == procs[p]
         userTaskError == UniqueViolation(user_tasks, pr.user, pr.task)
     IN /\ user_tasks' =
             IF userTaskError THEN user_tasks
             ELSE user_tasks \cup
                    { [ id |-> p, user_id |-> pr.user, task_id |-> pr.task,
                        reward_amount |-> tasks(pr.task).reward ] }
        /\ procs' = [ procs EXCEPT ![p] =
             IF ThrowsUserTaskError(userTaskError)
             THEN Finish(pr, "Failed")
             ELSE [ pr EXCEPT !.pc = "updateUser" ] ]
  /\ UNCHANGED <<users, referrals, transactions, withdrawals, notifications,
                 base, faults>>

\* The insert fails in the store: userTaskError is thrown to the catch.
InsertUserTaskFails(p) ==
  /\ procs[p].pc = "insertUserTask"
  /\ CanFail
  /\ faults' = faults + 1
  /\ procs' = [ procs EXCEPT ![p] =
       IF ThrowsUserTaskError(TRUE)
       THEN Finish(procs[p], "Failed")
       ELSE [ procs[p] EXCEPT !.pc = "updateUser" ] ]
  /\ UNCHANGED <<store, base>>

\* Update user balance and task count.
UpdateUser(p) ==
  /\ procs[p].pc = "updateUser"
  /\ LET pr == procs[p]
         reward == tasks(pr.task).reward
     IN /\ users' = [ users EXCEPT ![pr.user] = RewardUpdate(@, reward) ]
        /\ procs' = [ procs EXCEPT ![p] =
             [ pr EXCEPT !.pc = "refUser", !.dOwn = reward ] ]
  /\ UNCHANGED <<referrals, user_tasks, transactions, withdrawals, notifications,
                 base, faults>>

\* The update fails in the store.  The handler does not look at the result of
\* this call: a returned error is dropped and the handler goes on; a rejected
\* promise is caught and answered with 500.
UpdateUserFails(p) ==
  /\ procs[p].pc = "updateUser"
  /\ CanFail
  /\ faults' = faults + 1
  /\ \E rejected \in BOOLEAN :
       procs' = [ procs EXCEPT ![p] =
         IF rejected THEN Finish(procs[p], "Failed")
         ELSE [ procs[p] EXCEPT !.pc = "refUser" ] ]
  /\ UNCHANGED <<store, base>>


\* ------------------------------------------------ checkReferralBonuses
\* The lookup without the return for a user who has no referrer.
RefUserWithoutGuard(p) ==
  /\ procs[p].pc = "refUser"
  /\ procs' = [ procs EXCEPT ![p] =
       [ procs[p] EXCEPT !.pc = "refReferral",
                         !.tasksCompleted = users[procs[p].user].tasks_completed ] ]
  /\ UNCHANGED <<store, base, faults>>

\* Get user's referrer: referred_by and tasks_completed of the completing user.
RefUser(p) ==
  /\ procs[p].pc = "refUser"
  /\ LET pr == procs[p]
     IN procs' = [ procs EXCEPT ![p] =
          IF referred_by(pr.user) = None
          THEN Finish(pr, "ok")
          ELSE [ pr EXCEPT !.pc = "refReferral",
                           !.tasksCompleted = users[pr.user].tasks_completed ] ]
  /\ UNCHANGED <<store, base, faults>>

\* Get referral record and check for bonus milestones.
RefReferral(p) ==
  /\ procs[p].pc = "refReferral"
  /\ LET pr == procs[p]
     IN procs' = [ procs EXCEPT ![p] =
          IF pr.user \notin DOMAIN referrals
          THEN Finish(pr, "ok")
          ELSE LET b == bonusAmount(pr.tasksCompleted,
                                    referrals[pr.user].tasks_completed)
               IN [ pr EXCEPT !.bonusAmount = b,
                              !.pc = IF b > 0 THEN "refCredit" ELSE "refSnapshot" ] ]
  /\ UNCHANGED <<store, base, faults>>

\* The bonus update written as the reward update is, task counter included.
BonusUpdateAsReward(row, bonus) ==
  [ row EXCEPT !.balance = sql(row.balance, bonus),
               !.total_earnings = sql(row.total_earnings, bonus),
               !.tasks_completed = sql(row.tasks_completed, 1) ]

\* The referrer's users row after the bonus update.
BonusUpdate(row, bonus) ==
  [ row EXCEPT !.balance = sql(row.balance, bonus),
               !.total_earnings = sql(row.total_earnings, bonus) ]

\* Update referrer's balance.
RefCredit(p) ==
  /\ procs[p].pc = "refCredit"
  /\ LET pr == procs[p]
         referrerId == referred_by(pr.user)
     IN /\ users' = [ users EXCEPT ![referrerId] = BonusUpdate(@, pr.bonusAmount) ]
        /\ procs' = [ procs EXCEPT ![p] =
             [ pr EXCEPT !.pc = "refUpdate", !.dRef = pr.bonusAmount ] ]
  /\ UNCHANGED <<referrals, user_tasks, transactions, withdrawals, notifications,
                 base, faults>>

\* Update referral record: bonus_earned and the snapshot.
RefUpdate(p) ==
  /\ procs[p].pc = "refUpdate"
  /\ LET pr == procs[p]
     IN /\ referrals' = [ referrals EXCEPT ![pr.user] =
             [ bonus_earned |-> sql(@.bonus_earned, pr.bonusAmount),
               tasks_completed |-> pr.tasksCompleted ] ]
        /\ procs' = [ procs EXCEPT ![p] =
             [ pr EXCEPT !.pc = "refNotify", !.tasksCompleted = 0 ] ]
  /\ UNCHANGED <<users, user_tasks, transactions, withdrawals, notifications,
                 base, faults>>

\* Create notification for referrer; checkReferralBonuses returns and the
\* handler answers 200.
RefNotify(p) ==
  /\ procs[p].pc = "refNotify"
  /\ LET pr == procs[p]
     IN /\ notifications' = notifications \cup
             { [ id |-> p, user_id |-> referred_by(pr.user), type |-> "success",
                 amount |-> pr.bonusAmount ] }
        /\ procs' = [ procs EXCEPT ![p] = Finish(pr, "ok") ]
  /\ UNCHANGED <<users, referrals, user_tasks, transactions, withdrawals,
                 base, faults>>

\* No bonus: just update task count of the referral row.
RefSnapshot(p) ==
  /\ procs[p].pc = "refSnapshot"
  /\ LET pr == procs[p]
     IN /\ referrals' = [ referrals EXCEPT ![pr.user].tasks_completed =
                            pr.tasksCompleted ]
        /\ procs' = [ procs EXCEPT ![p] = Finish(pr, "ok") ]
  /\ UNCHANGED <<users, user_tasks, transactions, withdrawals, notifications,
                 base, faults>>

\* A lookup of checkReferralBonuses fails: a rejected promise is caught by the
\* function's own catch, a returned error leaves data null and the function
\* returns at its guard.  Either way nothing is written and the handler answers 200.
RefReadFails(p) ==
  /\ procs[p].pc \in {"refUser", "refReferral"}
  /\ CanFail
  /\ faults' = faults + 1
  /\ procs' = [ procs EXCEPT ![p] = Finish(procs[p], "ok") ]
  /\ UNCHANGED <<store, base>>

\* The failure of a write reaches the handler, which answers 500.
RefWriteFailsPropagates(p) ==
  /\ procs[p].pc \in {"refCredit", "refUpdate", "refNotify", "refSnapshot"}
  /\ CanFail
  /\ faults' = faults + 1
  /\ procs' = [ procs EXCEPT ![p] = Finish(procs[p], "Failed") ]
  /\ UNCHANGED <<store, base>>

\* A store write of checkReferralBonuses fails.  A rejected promise is caught by
\* the function's own catch, which logs and returns; a returned error is dropped
\* and the function goes on with its next call.  Either way the handler answers 200.
RefWriteFails(p) ==
  /\ procs[p].pc \in {"refCredit", "refUpdate", "refNotify", "refSnapshot"}
  /\ CanFail
  /\ faults' = faults + 1
  /\ \E rejected \in BOOLEAN :
       LET pr == procs[p]
           next == CASE pr.pc = "refCredit" -> "refUpdate"
                     [] pr.pc = "refUpdate" -> "refNotify"
                     [] OTHER -> "done"
       IN procs' = [ procs EXCEPT ![p] =
            IF rejected \/ next = "done" THEN Finish(pr, "ok")
            ELSE [ pr EXCEPT !.pc = next,
                             !.tasksCompleted =
                                IF next = "refNotify" THEN 0 ELSE @ ] ]
  /\ UNCHANGED <<store, base>>


\* ------------------------------------------------ POST / (request withdrawal)
\* Math.round(amount * WITHDRAWAL_FEE_PERCENTAGE) for a non-negative amount.
Fee(amount) == (amount * WITHDRAWAL_FEE_PERCENTAGE + 50) \div 100

\* The balance the debit writes: the store evaluates balance - amount on the row;
\* userBalance is the balance the handler read for its check.
WithdrawalDebitFromRead(rowBalance, userBalance, amount) == userBalance - amount
\* The debit of the net amount.
WithdrawalDebitNet(rowBalance, userBalance, amount) ==
  sql(rowBalance, -(amount - Fee(amount)))
WithdrawalDebit(rowBalance, userBalance, amount) == sql(rowBalance, -amount)

\* Validate input: the answer to a body with this amount and method ("ok" when
\* the body passes).  !amount holds of a missing amount and of 0.
ValidateInputAnyMethod(amount, method) ==
  IF amount = 0 \/ method = None THEN "MissingFields"
  ELSE IF amount < MINIMUM_WITHDRAWAL THEN "BelowMinimum"
  ELSE "ok"
ValidateInputAnyAmount(amount, method) ==
  IF amount = 0 \/ method = None THEN "MissingFields"
  ELSE IF method \notin {"paypal", "nequi"} THEN "UnsupportedMethod"
  ELSE "ok"
ValidateInput(amount, method) ==
  IF amount = 0 \/ method = None THEN "MissingFields"
  ELSE IF method \notin {"paypal", "nequi"} THEN "UnsupportedMethod"
  ELSE IF amount < MINIMUM_WITHDRAWAL THEN "BelowMinimum"
  ELSE "ok"

\* The request in arrives and its body is validated.
WithdrawalRequest(p, in) ==
  /\ LET u == in[1]
         amount == in[2]
         method == in[3]
         pr == [ procs[p] EXCEPT !.op = "requestWithdrawal", !.user = u,
                                 !.amount = amount, !.type = method ]
     IN procs' = [ procs EXCEPT ![p] =
          IF ValidateInput(amount, method) # "ok"
          THEN [ Finish(pr, ValidateInput(amount, method)) EXCEPT !.type = method ]
          ELSE [ pr EXCEPT !.pc = "readBalance" ] ]
  /\ UNCHANGED <<store, base, faults>>

StartWithdrawal(p) ==
  /\ CanStart(p)
  /\ \E in \in WithdrawalInputs : WithdrawalRequest(p, in)

\* Check user balance.
ReadBalance(p) ==
  /\ procs[p].pc = "readBalance"
  /\ LET pr == procs[p]
         user == users[pr.user]
     IN procs' = [ procs EXCEPT ![p] =
          IF user.balance < pr.amount
          THEN Finish(pr, "InsufficientFunds")
          ELSE [ pr EXCEPT !.pc = "insertWithdrawal", !.balance = user.balance ] ]
  /\ UNCHANGED <<store, base, faults>>

\* Calculate fee and net amount, create withdrawal request.
InsertWithdrawal(p) ==
  /\ procs[p].pc = "insertWithdrawal"
  /\ LET pr == procs[p]
         fee == Fee(pr.amount)
     IN /\ withdrawals' = withdrawals \cup
             { [ id |-> p, user_id |-> pr.user, amount |-> pr.amount,
                 method |-> pr.type, fee |-> fee, net_amount |-> pr.amount - fee,
                 status |-> "pending" ] }
        /\ procs' = [ procs EXCEPT ![p] = [ pr EXCEPT !.pc = "debit" ] ]
  /\ UNCHANGED <<users, referrals, user_tasks, transactions, notifications,
                 base, faults>>

\* The insert fails: withdrawalError is thrown to the catch.
InsertWithdrawalFails(p) ==
  /\ procs[p].pc = "insertWithdrawal"
  /\ CanFail
  /\ faults' = faults + 1
  /\ procs' = [ procs EXCEPT ![p] = Finish(procs[p], "Failed") ]
  /\ UNCHANGED <<store, base>>

\* Deduct amount from user balance.
Debit(p) ==
  /\ procs[p].pc = "debit"
  /\ LET pr == procs[p]
     IN /\ users' = [ users EXCEPT ![pr.user].balance =
                        WithdrawalDebit(@, pr.balance, pr.amount) ]
        /\ procs' = [ procs EXCEPT ![p] =
             [ pr EXCEPT !.pc = "notify", !.balance = 0, !.dOwn = -pr.amount,
                         !.raced = (users[pr.user].balance # pr.balance) ] ]
  /\ UNCHANGED <<referrals, user_tasks, transactions, withdrawals, notifications,
                 base, faults>>

\* The debit fails in the store; its result is not looked at.
DebitFails(p) ==
  /\ procs[p].pc = "debit"
  /\ CanFail
  /\ faults' = faults + 1
  /\ \E rejected \in BOOLEAN :
       procs' = [ procs EXCEPT ![p] =
         IF rejected THEN Finish(procs[p], "Failed")
         ELSE [ procs[p] EXCEPT !.pc = "notify", !.balance = 0 ] ]
  /\ UNCHANGED <<store, base>>

\* Create notification and answer 201.
Notify(p) ==
  /\ procs[p].pc = "notify"
  /\ LET pr == procs[p]
     IN /\ notifications' = notifications \cup
             { [ id |-> p, user_id |-> pr.user, type |-> "info",
                 amount |-> pr.amount ] }
        /\ procs' = [ procs EXCEPT ![p] = Finish(pr, "ok") ]
  /\ UNCHANGED <<users, referrals, user_tasks, transactions, withdrawals,
                 base, faults>>

\* The notification insert fails: dropped (answer 201) or caught (answer 500).
NotifyFails(p) ==
  /\ procs[p].pc = "notify"
  /\ CanFail
  /\ faults' = faults + 1
  /\ \E rejected \in BOOLEAN :
       procs' = [ procs EXCEPT ![p] =
         Finish(procs[p], IF rejected THEN "Failed" ELSE "ok") ]
  /\ UNCHANGED <<store, base>>

\* ------------------------------------------------ POST /balance/update
\* balanceChange = type === 'add' ? amount : -amount
balanceChange(type, amount) == IF type = "add" THEN amount ELSE -amount

\* The users row after the balance update.
BalanceUpdate(row, type, amount) ==
  [ row EXCEPT !.balance = sql(row.balance, balanceChange(type, amount)),
               !.total_earnings =
                  IF type = "add" THEN sql(row.total_earnings, amount)
                  ELSE row.total_earnings ]

\* The request arrives; amount and type are present.
StartBalanceUpdate(p) ==
  /\ CanStart(p)
  /\ \E in \in BalanceInputs :
       procs' = [ procs EXCEPT ![p] =
         [ procs[p] EXCEPT !.op = "balanceUpdate", !.user = in[1], !.amount = in[2],
                           !.type = in[3], !.pc = "updateBalance" ] ]
  /\ UNCHANGED <<store, base, faults>>

\* Update user balance.
UpdateBalance(p) ==
  /\ procs[p].pc = "updateBalance"
  /\ LET pr == procs[p]
     IN /\ users' = [ users EXCEPT ![pr.user] = BalanceUpdate(@, pr.type, pr.amount) ]
        /\ procs' = [ procs EXCEPT ![p] =
             [ pr EXCEPT !.pc = "insertTransaction",
                         !.dOwn = balanceChange(pr.type, pr.amount) ] ]
  /\ UNCHANGED <<referrals, user_tasks, transactions, withdrawals, notifications,
                 base, faults>>

\* The update fails: error is thrown to the catch.
UpdateBalanceFails(p) ==
  /\ procs[p].pc = "updateBalance"
  /\ CanFail
  /\ faults' = faults + 1
  /\ procs' = [ procs EXCEPT ![p] = Finish(procs[p], "Failed") ]
  /\ UNCHANGED <<store, base>>

\* Create transaction record and answer 200.
InsertTransaction(p) ==
  /\ procs[p].pc = "insertTransaction"
  /\ LET pr == procs[p]
     IN /\ transactions' = transactions \cup
             { [ id |-> p, user_id |-> pr.user,
                 amount |-> balanceChange(pr.type, pr.amount), type |-> pr.type ] }
        /\ procs' = [ procs EXCEPT ![p] = Finish(pr, "ok") ]
  /\ UNCHANGED <<users, referrals, user_tasks, withdrawals, notifications,
                 base, faults>>

\* The transaction insert fails: dropped (answer 200) or caught (answer 500).
InsertTransactionFails(p) ==
  /\ procs[p].pc = "insertTransaction"
  /\ CanFail
  /\ faults' = faults + 1
  /\ \E rejected \in BOOLEAN :
       procs' = [ procs EXCEPT ![p] =
         Finish(procs[p], IF rejected THEN "Failed" ELSE "ok") ]
  /\ UNCHANGED <<store, base>>

\* ------------------------------------------------ POST /register
\* The request arrives with email, password, name and phone present.  Requests in
\* progress at the same time carry different emails.
StartRegister(p) ==
  /\ CanStart(p)
  /\ \E in \in RegisterInputs :
       /\ \A q \in Procs : ~ ( /\ procs[q].op = "register" /\ procs[q].user = in[1]
                               /\ procs[q].pc # "done" )
       /\ procs' = [ procs EXCEPT ![p] =
            [ procs[p] EXCEPT !.op = "register", !.user = in[1],
                              !.referralCode = in[2], !.pc = "regCheck" ] ]
  /\ UNCHANGED <<store, base, faults>>

\* Check if user already exists.
RegCheck(p) ==
  /\ procs[p].pc = "regCheck"
  /\ LET pr == procs[p]
     IN procs' = [ procs EXCEPT ![p] =
          IF pr.user \in DOMAIN users
          THEN Finish(pr, "UserExists")
          ELSE [ pr EXCEPT !.pc = IF pr.referralCode # None THEN "regReferrer"
                                  ELSE "regInsertUser" ] ]
  /\ UNCHANGED <<store, base, faults>>

\* Check if referral code exists and get referrer.
RegReferrer(p) ==
  /\ procs[p].pc = "regReferrer"
  /\ LET pr == procs[p]
         referrer == ReferralCodeOwner(pr.referralCode)
     IN procs' = [ procs EXCEPT ![p] =
          [ pr EXCEPT !.pc = "regInsertUser",
                      !.referrerId = IF referrer \in DOMAIN users THEN referrer
                                     ELSE None ] ]
  /\ UNCHANGED <<store, base, faults>>

\* The users row of a new user.
NewUser ==
  [ balance |-> 0, total_earnings |-> 0, tasks_completed |-> 0, referrals_count |-> 0 ]

\* Create user.
RegInsertUser(p) ==
  /\ procs[p].pc = "regInsertUser"
  /\ LET pr == procs[p]
     IN /\ users' = (pr.user :> NewUser) @@ users
        /\ procs' = [ procs EXCEPT ![p] =
             IF pr.referrerId # None THEN [ pr EXCEPT !.pc = "regInsertReferral" ]
             ELSE Finish(pr, "ok") ]
  /\ UNCHANGED <<referrals, user_tasks, transactions, withdrawals, notifications,
                 base, faults>>

\* The insert fails: userError is thrown to the catch.
RegInsertUserFails(p) ==
  /\ procs[p].pc = "regInsertUser"
  /\ CanFail
  /\ faults' = faults + 1
  /\ procs' = [ procs EXCEPT ![p] = Finish(procs[p], "Failed") ]
  /\ UNCHANGED <<store, base>>

\* The referrals row of a new referred user.
NewReferral == [ bonus_earned |-> 0, tasks_completed |-> 0 ]

\* Create referral record if referred.
RegInsertReferral(p) ==
  /\ procs[p].pc = "regInsertReferral"
  /\ LET pr == procs[p]
     IN /\ referrals' = (pr.user :> NewReferral) @@ referrals
        /\ procs' = [ procs EXCEPT ![p] = [ pr EXCEPT !.pc = "regCount" ] ]
  /\ UNCHANGED <<users, user_tasks, transactions, withdrawals, notifications,
                 base, faults>>

\* The referrals insert fails; its result is not looked at: a returned error is
\* dropped and the handler goes on, a rejected promise is caught (answer 500).
RegInsertReferralFails(p) ==
  /\ procs[p].pc = "regInsertReferral"
  /\ CanFail
  /\ faults' = faults + 1
  /\ \E rejected \in BOOLEAN :
       procs' = [ procs EXCEPT ![p] =
         IF rejected THEN Finish(procs[p], "Failed")
         ELSE [ procs[p] EXCEPT !.pc = "regCount" ] ]
  /\ UNCHANGED <<store, base>>

\* The referrer's users row after the count update.
CountUpdateSkipped(row) == row
CountUpdate(row) == [ row EXCEPT !.referrals_count = sql(row.referrals_count, 1) ]

\* Increment referrer's referral count and answer 201.
RegCount(p) ==
  /\ procs[p].pc = "regCount"
  /\ LET pr == procs[p]
     IN /\ users' = [ users EXCEPT ![pr.referrerId] = CountUpdate(@) ]
        /\ procs' = [ procs EXCEPT ![p] = Finish(pr, "ok") ]
  /\ UNCHANGED <<referrals, user_tasks, transactions, withdrawals, notifications,
                 base, faults>>

\* The count update fails; its result is not looked at.
RegCountFails(p) ==
  /\ procs[p].pc = "regCount"
  /\ CanFail
  /\ faults' = faults + 1
  /\ \E rejected \in BOOLEAN :
       procs' = [ procs EXCEPT ![p] =
         Finish(procs[p], IF rejected THEN "Failed" ELSE "ok") ]
  /\ UNCHANGED <<store, base>>

\* ------------------------------------------------ specification
Next ==
  \E p \in Procs :
    \/ StartCompleteTask(p)
    \/ CheckExisting(p)
    \/ InsertUserTask(p)
    \/ InsertUserTaskFails(p)
    \/ UpdateUser(p)
    \/ UpdateUserFails(p)
    \/ RefUser(p)
    \/ RefReferral(p)
    \/ RefCredit(p)
    \/ RefUpdate(p)
    \/ RefNotify(p)
    \/ RefSnapshot(p)
    \/ RefReadFails(p)
    \/ RefWriteFails(p)
    \/ StartWithdrawal(p)
    \/ ReadBalance(p)
    \/ InsertWithdrawal(p)
    \/ InsertWithdrawalFails(p)
    \/ Debit(p)
    \/ DebitFails(p)
    \/ Notify(p)
    \/ NotifyFails(p)
    \/ StartBalanceUpdate(p)
    \/ UpdateBalance(p)
    \/ UpdateBalanceFails(p)
    \/ InsertTransaction(p)
    \/ InsertTransactionFails(p)

Spec == Init /\ [][Next]_vars

\* ------------------------------------------------ registrations and two referred users
\* ana has referred beto and caro, who have completed the same number of tasks;
\* dani, eva and fede are not registered yet.
ReferralBaseCounts == {1, 2}
\* Requests to POST /:taskId/complete: <<user, taskId>>.
ReferralCompleteInputs ==
  { <<"ana", "t1">>, <<"beto", "t1">>, <<"caro", "t1">>, <<"dani", "t1">>,
    <<"beto", "t9">>, <<"caro", "t0">> }
\* Requests to POST / (request withdrawal): <<user, amount, method>>.
ReferralWithdrawalInputs == { <<"ana", 30000, "paypal">> }

InitReferral ==
  /\ base \in ReferralBaseCounts
  /\ users = [ u \in {"ana", "beto", "caro"} |->
       [ balance         |-> InitBalance(u, base),
         total_earnings  |-> InitBalance(u, base),
         tasks_completed |-> IF u = "ana" THEN 0 ELSE base,
         referrals_count |-> IF u = "ana" THEN 2 ELSE 0 ] ]
  /\ referrals = [ u \in {"beto", "caro"} |->
       [ bonus_earned |-> PaidBefore(base), tasks_completed |-> base ] ]
  /\ user_tasks = {}
  /\ transactions = {}
  /\ withdrawals = {}
  /\ notifications = {}
  /\ procs = [ p \in Procs |-> Idle ]
  /\ faults = 0

ArriveCompleteTask(p) ==
  /\ CanStart(p)
  /\ \E in \in ReferralCompleteInputs : CompleteTaskRequest(p, in)

ArriveWithdrawal(p) ==
  /\ CanStart(p)
  /\ \E in \in ReferralWithdrawalInputs : WithdrawalRequest(p, in)

NextReferral ==
  \E p \in Procs :
    \/ ArriveCompleteTask(p)
    \/ CheckExisting(p)
    \/ InsertUserTask(p)
    \/ InsertUserTaskFails(p)
    \/ UpdateUser(p)
    \/ UpdateUserFails(p)
    \/ RefUser(p)
    \/ RefReferral(p)
    \/ RefCredit(p)
    \/ RefUpdate(p)
    \/ RefNotify(p)
    \/ RefSnapshot(p)
    \/ RefReadFails(p)
    \/ RefWriteFails(p)
    \/ ArriveWithdrawal(p)
    \/ ReadBalance(p)
    \/ InsertWithdrawal(p)
    \/ InsertWithdrawalFails(p)
    \/ Debit(p)
    \/ DebitFails(p)
    \/ Notify(p)
    \/ NotifyFails(p)
    \/ StartRegister(p)
    \/ RegCheck(p)
    \/ RegReferrer(p)
    \/ RegInsertUser(p)
    \/ RegInsertUserFails(p)
    \/ RegInsertReferral(p)
    \/ RegInsertReferralFails(p)
    \/ RegCount(p)
    \/ RegCountFails(p)

SpecReferral == InitReferral /\ [][NextReferral]_vars


\* ------------------------------------------------ definitions for the properties
Quiescent == \A p \in Procs : procs[p].pc \in {"idle", "done"}

\* The delta invocation p applied to the balance of user u.
DeltaOf(p, u) ==
  (IF procs[p].user = u THEN procs[p].dOwn ELSE 0)
    + (IF procs[p].user # None /\ referred_by(procs[p].user) = u
       THEN procs[p].dRef ELSE 0)

\* Sum of the deltas applied to the balance of user u.
Applied(u) == SumOver([ p \in Procs |-> DeltaOf(p, u) ], Procs)

\* Sum of the signed amounts of the transactions of user u.
TransactionSum(u) ==
  LET rows == { r \in transactions : r.user_id = u }
  IN SumOver([ r \in rows |-> r.amount ], rows)

ReferredUsers == { u \in Users : referred_by(u) # None }
Milestones == {3, 7, 15}
\* The bonus of milestone T.
Bonus(T) == bonusAmount(T, 0)

\* Invocations of completeTask for (u, t) that credited the reward.
Credited(u, t) ==
  { p \in Procs : /\ procs[p].op = "completeTask"
                  /\ procs[p].user = u /\ procs[p].task = t
                  /\ procs[p].dOwn # 0 }

\* Invocations that credited the bonus of milestone T for the referred user u.
BonusCredits(u, T) ==
  { p \in Procs : procs[p].op = "completeTask" /\ procs[p].user = u
                  /\ procs[p].dRef = Bonus(T) }

\* Number of times the bonus of milestone T was credited for the referred user u,
\* the one paid before the initial state included.
TimesCredited(u, T) ==
  Cardinality(BonusCredits(u, T)) + (IF base >= T THEN 1 ELSE 0)

\* ------------------------------------------------ properties
\* C1: once all invocations have finished, every user's balance is the initial
\* balance plus the sum of the deltas applied to it: no update is lost.
NoLostUpdate ==
  Quiescent =>
    \A u \in Users : users[u].balance = InitBalance(u, base) + Applied(u)

\* C1 witness: all finished, and a withdrawal debited a balance that another
\* invocation's delta had changed between the withdrawal's check and its debit.
NoLostUpdateWitness ==
  /\ Quiescent
  /\ \E p, q \in Procs :
       /\ p # q
       /\ procs[p].raced /\ procs[p].dOwn # 0
       /\ DeltaOf(q, procs[p].user) # 0

\* C2: for every (user, task) the reward is credited at most once and at most
\* one completion row exists, in any interleaving of completeTask invocations.
CompletedAtMostOnce ==
  \A u \in Users, t \in TaskIds :
    /\ Cardinality(Credited(u, t)) <= 1
    /\ Cardinality({ r \in user_tasks : r.user_id = u /\ r.task_id = t }) <= 1

\* C2 witness: two invocations for the same (user, task) both passed the
\* pre-check; one inserted the row and credited, the store refused the other's row.
CompletedAtMostOnceWitness ==
  /\ faults = 0
  /\ \E p, q \in Procs :
       /\ p # q
       /\ procs[p].op = "completeTask" /\ procs[q].op = "completeTask"
       /\ procs[p].user = procs[q].user /\ procs[p].task = procs[q].task
       /\ procs[p].dOwn # 0
       /\ procs[q].pc = "done" /\ procs[q].result = "Failed"

\* C3: the balance is never negative under interleaved withdrawals and task
\* completions (no balance/update call, no failing store call).
BalanceNeverNegative ==
  (faults = 0 /\ \A p \in Procs : procs[p].op # "balanceUpdate")
    => \A u \in Users : users[u].balance >= 0

\* C4: a completeTask that arrives when the completion row of its (user, task)
\* exists answers AlreadyCompleted, and none of its steps changes the store.
SecondAttemptRejected ==
  /\ [](\A p \in Procs :
          procs[p].existed =>
            /\ procs[p].pc \in {"checkExisting", "done"}
            /\ procs[p].pc = "done" => procs[p].result = "AlreadyCompleted"
            /\ procs[p].dOwn = 0 /\ procs[p].dRef = 0
            /\ \A r \in user_tasks \cup notifications : r.id # p)
  /\ [][\A p \in Procs :
          (procs'[p].existed /\ procs'[p] # procs[p]) => store' = store]_vars

\* C4 witness: a second attempt was answered AlreadyCompleted.
SecondAttemptRejectedWitness ==
  \E p \in Procs :
    /\ procs[p].existed
    /\ procs[p].pc = "done" /\ procs[p].result = "AlreadyCompleted"
    /\ Credited(procs[p].user, procs[p].task) # {}

\* C5: a debit step (of balance/update with type 'subtract', or of a withdrawal)
\* whose amount exceeds the user's current balance leaves the balance unchanged
\* and the call is answered InsufficientFunds (the store call itself not failing).
DebitOverBalanceRejected ==
  [][\A p \in Procs :
       ( /\ \/ procs[p].pc = "updateBalance" /\ procs[p].type # "add"
            \/ procs[p].pc = "debit"
         /\ procs[p].amount > users[procs[p].user].balance
         /\ procs'[p] # procs[p]
         /\ faults' = faults )
       => /\ users'[procs[p].user].balance = users[procs[p].user].balance
          /\ procs'[p].pc = "done" /\ procs'[p].result = "InsufficientFunds"]_vars

\* C6: once all invocations have finished, the change of every user's balance
\* is the sum of the signed amounts of the transactions inserted for that user
\* (no failing store call).
BalanceIsTransactionSum ==
  (faults = 0 /\ Quiescent) =>
    \A u \in Users :
      users[u].balance - InitBalance(u, base) = TransactionSum(u)

\* C7: while no completeTask for (user, task) is in progress, a completion row
\* for (user, task) exists if and only if the reward was credited.
CompletionIffCredited ==
  \A u \in Users, t \in TaskIds :
    (\A p \in Procs :
       ~ ( /\ procs[p].op = "completeTask" /\ procs[p].pc # "done"
           /\ procs[p].user = u /\ procs[p].task = t ))
    => ( (\E r \in user_tasks : r.user_id = u /\ r.task_id = t)
           <=> Credited(u, t) # {} )

\* C8: while no requestWithdrawal of a user is in progress, every withdrawal
\* row of the user has its full amount debited by the invocation that inserted
\* it, and every debit has its withdrawal row.
WithdrawalIffDebited ==
  \A u \in Users :
    (\A p \in Procs :
       ~ ( /\ procs[p].op = "requestWithdrawal" /\ procs[p].pc # "done"
           /\ procs[p].user = u ))
    => /\ \A w \in withdrawals :
            w.user_id = u => procs[w.id].dOwn = -w.amount
       /\ \A p \in Procs :
            (procs[p].op = "requestWithdrawal" /\ procs[p].user = u
               /\ procs[p].dOwn # 0)
            => \E w \in withdrawals : w.id = p /\ w.amount = -procs[p].dOwn

\* C9: the bonus of each milestone is credited at most once per referral pair,
\* so bonus_earned never exceeds 17000 (no failing store call).
MilestoneAtMostOnce ==
  faults = 0 =>
    \A u \in ReferredUsers :
      /\ \A T \in Milestones : TimesCredited(u, T) <= 1
      /\ referrals[u].bonus_earned <= 5000 + 4000 + 8000

\* C10: once all invocations have finished, the bonus of every milestone the
\* referred user's tasks_completed has reached was credited (no failing store call).
NoMilestoneMissed ==
  (faults = 0 /\ Quiescent) =>
    \A u \in ReferredUsers, T \in Milestones :
      users[u].tasks_completed >= T => TimesCredited(u, T) >= 1


\* The milestone table: threshold -> bonus.
MilestoneBonus(T) == CASE T = 3 -> 5000 [] T = 7 -> 4000 [] T = 15 -> 8000

\* The step is one of invocation p and no store call fails in it.
StepOf(p) == procs'[p] # procs[p] /\ faults' = faults

\* C11: an evaluation that read count T (3, 7, 15) and a snapshot below T awards
\* the bonus of T: it adds exactly 5000, 4000, 8000 to the referrer's balance
\* and sets the snapshot to T; an evaluation that read count T and snapshot T
\* awards nothing.
MilestoneAwarded ==
  [][\A p \in Procs :
       LET pr == procs[p]
       IN /\ (pr.pc = "refReferral" /\ StepOf(p) /\ pr.tasksCompleted \in Milestones)
               => IF referrals[pr.user].tasks_completed < pr.tasksCompleted
                  THEN /\ procs'[p].pc = "refCredit"
                       /\ procs'[p].bonusAmount = MilestoneBonus(pr.tasksCompleted)
                  ELSE /\ procs'[p].pc = "refSnapshot"
                       /\ procs'[p].bonusAmount = 0
          /\ (pr.pc = "refCredit" /\ StepOf(p))
               => /\ pr.tasksCompleted \in Milestones
                  /\ users'[referred_by(pr.user)].balance =
                       users[referred_by(pr.user)].balance
                         + MilestoneBonus(pr.tasksCompleted)
          /\ (pr.pc = "refUpdate" /\ StepOf(p))
               => /\ pr.tasksCompleted \in Milestones
                  /\ referrals'[pr.user].tasks_completed = pr.tasksCompleted]_vars

\* C11 witness: the bonus of T was awarded (balance of the referrer up by exactly
\* the bonus, snapshot T), and a second evaluation that read the count still at
\* T found the snapshot at T and awards nothing.
MilestoneAwardedWitness ==
  \E p, q \in Procs, T \in Milestones :
    /\ p # q
    /\ procs[q].user = "beto" /\ procs[q].dRef = MilestoneBonus(T)
    /\ users["ana"].balance = InitBalance("ana", base) + MilestoneBonus(T)
    /\ users["beto"].tasks_completed = T
    /\ referrals["beto"].tasks_completed = T
    /\ procs[p].user = "beto" /\ procs[p].pc = "refSnapshot"
    /\ procs[p].tasksCompleted = T /\ procs[p].bonusAmount = 0


\* C12: over every step, total_earnings of every user does not decrease, and it
\* increases only together with a credit of the same amount to the balance.
EarningsNeverDecrease ==
  [][\A u \in Users :
       /\ users'[u].total_earnings >= users[u].total_earnings
       /\ users'[u].total_earnings > users[u].total_earnings
            => users'[u].balance - users[u].balance
                 = users'[u].total_earnings - users[u].total_earnings]_vars


\* The positions of an invocation inside checkReferralBonuses.
RefPcs == {"refUser", "refReferral", "refCredit", "refUpdate", "refNotify", "refSnapshot"}

\* C13: a failing store call inside the referral evaluation leaves the completion
\* record and the completing user's row as they are, and the completeTask that
\* triggered the evaluation still ends with success; its completion record
\* exists throughout the evaluation and no step removes a completion record.
EvaluationFailureSwallowed ==
  /\ [](\A p \in Procs :
          procs[p].pc \in RefPcs => \E row \in user_tasks : row.id = p)
  /\ [][/\ user_tasks \subseteq user_tasks'
        /\ \A p \in Procs :
             LET pr == procs[p]
             IN (pr.pc \in RefPcs /\ procs'[p] # pr /\ faults' = faults + 1)
                  => /\ users'[pr.user] = users[pr.user]
                     /\ procs'[p].dOwn = pr.dOwn
                     /\ procs'[p].result # "Failed"
                     /\ procs'[p].pc = "done" => procs'[p].result = "ok"]_vars

\* C13 witness: the only invocation is a completeTask of beto that ended with
\* success, its record is stored and its reward credited, and the one failure
\* of the run hit its evaluation: the snapshot was not brought up to the count.
EvaluationFailureSwallowedWitness ==
  /\ faults = 1
  /\ procs[1].op = "completeTask" /\ procs[1].user = "beto"
  /\ procs[1].pc = "done" /\ procs[1].result = "ok"
  /\ \A q \in Procs \ {1} : procs[q].pc = "idle"
  /\ \E row \in user_tasks : row.id = 1
  /\ procs[1].dOwn = tasks(procs[1].task).reward
  /\ users["beto"].balance = InitBalance("beto", base) + procs[1].dOwn
  /\ referrals["beto"].tasks_completed # users["beto"].tasks_completed


\* C14: every withdrawal record of amount A carries a fee within one half of
\* A * 0.10 (halves rounded up) and net_amount = A - fee, so fee + net_amount = A
\* (A = 30000: fee 3000, net_amount 27000); every step in which a withdrawal
\* request changes its user's balance lowers it by the full A, and a request
\* answered with success in a run without store failures has debited A.
WithdrawalAmounts ==
  /\ [](/\ \A w \in withdrawals :
             /\ 100 * w.fee <= 10 * w.amount + 50
             /\ 100 * w.fee > 10 * w.amount - 50
             /\ w.net_amount = w.amount - w.fee
             /\ w.fee + w.net_amount = w.amount
             /\ w.amount = 30000 => w.fee = 3000 /\ w.net_amount = 27000
        /\ \A p \in Procs :
             ( /\ procs[p].op = "requestWithdrawal"
               /\ procs[p].pc = "done" /\ procs[p].result = "ok"
               /\ faults = 0 )
               => /\ procs[p].dOwn = -procs[p].amount
                  /\ \E w \in withdrawals : w.id = p /\ w.amount = procs[p].amount)
  /\ [][\A p \in Procs :
          LET pr == procs[p]
          IN ( /\ pr.op = "requestWithdrawal" /\ procs'[p] # pr
               /\ users'[pr.user].balance # users[pr.user].balance )
               => users'[pr.user].balance = users[pr.user].balance - pr.amount]_vars

\* C14 witness: a withdrawal of 30000 ended with success: its record has fee 3000
\* and net_amount 27000, and the balance is 30000 lower than at the start.
WithdrawalAmountsWitness ==
  \E p \in Procs :
    /\ procs[p].op = "requestWithdrawal" /\ procs[p].amount = 30000
    /\ procs[p].pc = "done" /\ procs[p].result = "ok"
    /\ \A q \in Procs \ {p} : procs[q].pc = "idle"
    /\ \E w \in withdrawals : w.id = p /\ w.fee = 3000 /\ w.net_amount = 27000
    /\ users[procs[p].user].balance = InitBalance(procs[p].user, base) - 30000


\* Invocation p has written nothing: no balance change, no withdrawal record,
\* no notification.
WroteNothing(p) ==
  /\ procs[p].dOwn = 0
  /\ \A w \in withdrawals : w.id # p
  /\ \A n \in notifications : n.id # p

\* C15 as stated: a withdrawal request with amount below 25000 is answered with
\* BelowMinimum and has written nothing.
BelowMinimumAlways ==
  \A p \in Procs :
    (procs[p].op = "requestWithdrawal" /\ procs[p].amount < MINIMUM_WITHDRAWAL)
      => /\ procs[p].pc = "done" /\ procs[p].result = "BelowMinimum"
         /\ WroteNothing(p)

\* C15: a withdrawal request with amount below 25000 is rejected on arrival, with
\* the store left as it is, and never writes anything; the answer is
\* MissingFields for an amount of 0, UnsupportedMethod for a method outside
\* {paypal, nequi}, and BelowMinimum otherwise.
BelowMinimumRejected ==
  /\ [](\A p \in Procs :
          (procs[p].op = "requestWithdrawal" /\ procs[p].amount < MINIMUM_WITHDRAWAL)
            => /\ procs[p].pc = "done"
               /\ procs[p].result =
                    IF procs[p].amount = 0 THEN "MissingFields"
                    ELSE IF procs[p].type \notin {"paypal", "nequi"}
                    THEN "UnsupportedMethod"
                    ELSE "BelowMinimum"
               /\ WroteNothing(p))
  /\ [][\A p \in Procs :
          ( /\ procs[p].pc = "idle" /\ procs'[p].op = "requestWithdrawal"
            /\ procs'[p].amount < MINIMUM_WITHDRAWAL )
            => store' = store]_vars

\* C15 witness: a request of 20000 by nequi was answered with BelowMinimum while
\* the balance of the user covers the amount, and the balance is untouched.
BelowMinimumRejectedWitness ==
  \E p \in Procs :
    /\ procs[p].op = "requestWithdrawal" /\ procs[p].amount = 20000
    /\ procs[p].type = "nequi" /\ procs[p].result = "BelowMinimum"
    /\ \A q \in Procs \ {p} : procs[q].pc = "idle"
    /\ users[procs[p].user].balance = InitBalance(procs[p].user, base)
    /\ users[procs[p].user].balance >= 20000
    /\ withdrawals = {} /\ notifications = {}


\* The request of invocation p names a method outside the supported set.
MethodUnsupported(p) ==
  /\ procs[p].op = "requestWithdrawal"
  /\ procs[p].type \notin {"paypal", "nequi", None}

\* C16 as stated: a withdrawal request whose method is not in {paypal, nequi} is
\* answered with UnsupportedMethod and has written nothing.
UnsupportedMethodAlways ==
  \A p \in Procs :
    MethodUnsupported(p)
      => /\ procs[p].pc = "done" /\ procs[p].result = "UnsupportedMethod"
         /\ WroteNothing(p)

\* C16: a withdrawal request whose method is not in {paypal, nequi} is rejected on
\* arrival, with the store left as it is, and never writes anything; the answer
\* is UnsupportedMethod unless the amount is 0, which is answered MissingFields.
UnsupportedMethodRejected ==
  /\ [](\A p \in Procs :
          MethodUnsupported(p)
            => /\ procs[p].pc = "done"
               /\ procs[p].result =
                    IF procs[p].amount = 0 THEN "MissingFields"
                    ELSE "UnsupportedMethod"
               /\ WroteNothing(p))
  /\ [][\A p \in Procs :
          ( /\ procs[p].pc = "idle" /\ procs'[p].op = "requestWithdrawal"
            /\ procs'[p].type \notin {"paypal", "nequi", None} )
            => store' = store]_vars

\* C16 witness: a request by method bank with its amount present was answered
\* with UnsupportedMethod, and no record, notification or balance change exists.
UnsupportedMethodRejectedWitness ==
  \E p \in Procs :
    /\ MethodUnsupported(p) /\ procs[p].type = "bank" /\ procs[p].amount > 0
    /\ procs[p].pc = "done" /\ procs[p].result = "UnsupportedMethod"
    /\ \A q \in Procs \ {p} : procs[q].pc = "idle"
    /\ users = [ u \in Users |->
                 [ users[u] EXCEPT !.balance = InitBalance(u, base) ] ]
    /\ withdrawals = {} /\ notifications = {} /\ transactions = {}


\* C17: once a balance/update call has ended, if it was answered with success or
\* changed the balance, exactly one transaction record of the call exists and
\* its signed amount is the delta applied to the balance.
TransactionWithEveryChange ==
  \A p \in Procs :
    ( /\ procs[p].op = "balanceUpdate" /\ procs[p].pc = "done"
      /\ (procs[p].result = "ok" \/ procs[p].dOwn # 0) )
      => /\ Cardinality({ t \in transactions : t.id = p }) = 1
         /\ \A t \in transactions : t.id = p => t.amount = procs[p].dOwn


\* Sum of the bonuses credited to the referrer's balance for the referred user u.
BonusCredited(u) ==
  SumOver([ p \in Procs |-> IF procs[p].user = u THEN procs[p].dRef ELSE 0 ], Procs)

\* Sum of the amounts of the bonus notifications of the referrer of u.
BonusNotified(u) ==
  LET rows == { n \in notifications :
                  n.type = "success" /\ n.user_id = referred_by(u) }
  IN SumOver([ n \in rows |-> n.amount ], rows)

\* C18: the step of an award that updates the referral record adds to
\* bonus_earned the amount the evaluation credited to the referrer's balance and
\* sets the snapshot to the user's current count; once all invocations have
\* finished, each award has exactly one notification, and bonus_earned has grown
\* by the total credited to the referrer, which is the total of the bonus
\* notifications.
BonusBookkeeping ==
  /\ [](Quiescent =>
          /\ \A p \in Procs :
               procs[p].dRef > 0
                 => /\ Cardinality({ n \in notifications : n.id = p }) = 1
                    /\ \A n \in notifications : n.id = p => n.amount = procs[p].dRef
          /\ \A u \in ReferredUsers :
               /\ referrals[u].bonus_earned = PaidBefore(base) + BonusCredited(u)
               /\ referrals[u].bonus_earned = PaidBefore(base) + BonusNotified(u))
  /\ [][\A p \in Procs :
          LET pr == procs[p]
          IN (pr.pc = "refUpdate" /\ procs'[p] # pr /\ referrals' # referrals)
               => /\ referrals'[pr.user].bonus_earned =
                       referrals[pr.user].bonus_earned + pr.dRef
                  /\ referrals'[pr.user].tasks_completed =
                       users[pr.user].tasks_completed]_vars


\* The completions of user u made before the initial state.
CompletedBefore(u) == IF u = "beto" THEN base ELSE 0

\* C19: after a successful completeTask of a user, while no completeTask of the
\* user is in progress, the user's tasks_completed counter is the number of the
\* user's completion records (those made before the initial state included).
CounterMatchesRecords ==
  \A u \in Users :
    ( /\ \E p \in Procs : /\ procs[p].op = "completeTask" /\ procs[p].user = u
                          /\ procs[p].pc = "done" /\ procs[p].result = "ok"
      /\ \A p \in Procs : ~ ( /\ procs[p].op = "completeTask" /\ procs[p].user = u
                              /\ procs[p].pc # "done" ) )
    => users[u].tasks_completed =
         CompletedBefore(u) + Cardinality({ r \in user_tasks : r.user_id = u })


\* C20: the step of an evaluation that awards no bonus sets the snapshot of the
\* referral record to the referred user's current count and leaves every users
\* row (balance, total_earnings), bonus_earned and the notifications unchanged.
NoAwardSnapshotsCurrentCount ==
  [][\A p \in Procs :
       LET pr == procs[p]
       IN (pr.pc = "refSnapshot" /\ procs'[p] # pr /\ faults' = faults)
            => /\ referrals'[pr.user].tasks_completed = users[pr.user].tasks_completed
               /\ referrals'[pr.user].bonus_earned = referrals[pr.user].bonus_earned
               /\ users' = users
               /\ notifications' = notifications]_vars


\* C21: the step of an evaluation that finds no referrer for the completing user,
\* or no referral record for the pair, ends the evaluation with the store left
\* as it is (no balance, referral record or notification changes) and the
\* completeTask answered with success; such an evaluation never reaches a write.
EvaluationWithoutReferralIsNoOp ==
  /\ [](\A p \in Procs :
          (procs[p].pc \in RefPcs \ {"refUser", "refReferral"})
            => /\ referred_by(procs[p].user) # None
               /\ procs[p].user \in DOMAIN referrals)
  /\ [][\A p \in Procs :
          LET pr == procs[p]
          IN ( /\ procs'[p] # pr
               /\ \/ pr.pc = "refUser" /\ referred_by(pr.user) = None
                  \/ pr.pc = "refReferral" /\ pr.user \notin DOMAIN referrals )
               => /\ store' = store
                  /\ procs'[p].pc = "done" /\ procs'[p].result = "ok"
                  /\ procs'[p].dRef = 0]_vars

\* C21 witness: dani was registered with ana's code but has no referral record;
\* dani's completeTask ended with success and its reward, and neither ana's row,
\* nor a referral record, nor a notification changed.
EvaluationWithoutReferralIsNoOpWitness ==
  \E p \in Procs :
    /\ procs[p].op = "completeTask" /\ procs[p].user = "dani"
    /\ procs[p].pc = "done" /\ procs[p].result = "ok"
    /\ procs[p].dOwn = tasks(procs[p].task).reward
    /\ referred_by("dani") = "ana" /\ "dani" \notin DOMAIN referrals
    /\ users["dani"].tasks_completed = 1
    /\ users["ana"].balance = InitBalance("ana", base)
    /\ notifications = {}
    /\ \A u \in DOMAIN referrals :
         referrals[u] = [ bonus_earned |-> PaidBefore(base), tasks_completed |-> base ]


\* C22: a completeTask for the inactive task t9 or for t0, the id of no task, is
\* answered with TaskNotFound on arrival with the store left as it is; it never
\* inserts a completion record, credits nothing to anybody and never enters the
\* referral evaluation.
TaskNotFoundChangesNothing ==
  /\ [](\A p \in Procs :
          (procs[p].op = "completeTask" /\ procs[p].task \in {"t9", "t0"})
            => /\ procs[p].pc = "done" /\ procs[p].result = "TaskNotFound"
               /\ procs[p].dOwn = 0 /\ procs[p].dRef = 0
               /\ \A r \in user_tasks : r.id # p)
  /\ [][\A p \in Procs :
          ( /\ procs[p].pc = "idle" /\ procs'[p].op = "completeTask"
            /\ procs'[p].task \in {"t9", "t0"} )
            => store' = store]_vars

\* C22 witness: a request for the inactive task and a request for the missing
\* task were both answered with TaskNotFound; no completion record exists and
\* the rows of the two users are the initial ones.
TaskNotFoundChangesNothingWitness ==
  \E p, q \in Procs :
    /\ procs[p].task = "t9" /\ procs[p].result = "TaskNotFound"
    /\ procs[q].task = "t0" /\ procs[q].result = "TaskNotFound"
    /\ user_tasks = {} /\ notifications = {}
    /\ \A u \in {procs[p].user, procs[q].user} :
         /\ users[u].balance = InitBalance(u, base)
         /\ users[u].total_earnings = InitBalance(u, base)
         /\ users[u].tasks_completed = base


\* C23: a step of a completeTask or requestWithdrawal of user A leaves, for every
\* other user B, tasks_completed, the completion records and the withdrawal
\* records of B unchanged, and balance and total_earnings of B unchanged
\* except at the bonus credit to A's referrer, which adds the bonus to both;
\* once all invocations have finished, the referrer's balance is its initial
\* balance plus every delta applied to it, the bonuses of all its referred
\* users included.
OtherUsersUntouched ==
  /\ [](Quiescent =>
          \A u \in DOMAIN users \ NewUsers :
            users[u].balance = InitBalance(u, base) + Applied(u))
  /\ [][\A p \in Procs :
          LET pr == procs'[p]
          IN (procs'[p] # procs[p] /\ pr.op \in {"completeTask", "requestWithdrawal"})
               => \A B \in DOMAIN users \ {pr.user} :
                    /\ users'[B].tasks_completed = users[B].tasks_completed
                    /\ { r \in user_tasks' : r.user_id = B }
                         = { r \in user_tasks : r.user_id = B }
                    /\ { w \in withdrawals' : w.user_id = B }
                         = { w \in withdrawals : w.user_id = B }
                    /\ IF procs[p].pc = "refCredit" /\ B = referred_by(pr.user)
                       THEN /\ users'[B].balance - users[B].balance
                                \in {0, procs[p].bonusAmount}
                            /\ users'[B].total_earnings - users[B].total_earnings
                                = users'[B].balance - users[B].balance
                       ELSE /\ users'[B].balance = users[B].balance
                            /\ users'[B].total_earnings = users[B].total_earnings]_vars

\* C23 witness: beto and caro, both referred by ana, complete their third task
\* in two invocations that are both in progress; each has credited the bonus of
\* 5000, and ana's balance is 10000 above the initial one.
OtherUsersUntouchedWitness ==
  \E p, q \in Procs :
    /\ procs[p].user = "beto" /\ procs[p].dRef = 5000 /\ procs[p].pc = "refUpdate"
    /\ procs[q].user = "caro" /\ procs[q].dRef = 5000 /\ procs[q].pc = "refUpdate"
    /\ users["ana"].balance = InitBalance("ana", base) + 10000
    /\ users["beto"].balance = InitBalance("beto", base) + procs[p].dOwn
    /\ users["caro"].balance = InitBalance("caro", base) + procs[q].dOwn


\* The referral records whose referrer is r.
ReferralsOf(r) == { u \in DOMAIN referrals : referred_by(u) = r }

\* C24: while no registration is in progress, referrals_count of every user is
\* the number of referral records with that user as referrer; a step of a
\* registration creates a referral record only for its own new user, who had
\* none, with bonus_earned 0 and snapshot 0, and changes nothing else in the
\* referrals; a registration with a code that belongs to nobody creates no
\* referral record and changes no referrals_count.
ReferralsCountMatchesRecords ==
  /\ []((\A p \in Procs : procs[p].op = "register" => procs[p].pc = "done")
          => \A r \in DOMAIN users :
               users[r].referrals_count = Cardinality(ReferralsOf(r)))
  /\ [][\A p \in Procs :
          LET pr == procs[p]
          IN (pr.op = "register" /\ procs'[p] # pr)
               => /\ \A u \in DOMAIN referrals : /\ u \in DOMAIN referrals'
                                                 /\ referrals'[u] = referrals[u]
                  /\ DOMAIN referrals' \subseteq DOMAIN referrals \cup {pr.user}
                  /\ pr.user \in DOMAIN referrals' \ DOMAIN referrals
                       => referrals'[pr.user] = [ bonus_earned |-> 0, tasks_completed |-> 0 ]
                  /\ ReferralCodeOwner(pr.referralCode) = None
                       => /\ referrals' = referrals
                          /\ \A r \in DOMAIN users :
                               users'[r].referrals_count = users[r].referrals_count]_vars


\* C25: the snapshot of a referral record never exceeds the referred user's
\* tasks_completed, and no step of a run without store failures lowers it.
SnapshotNeverDecreases ==
  /\ [](\A u \in DOMAIN referrals :
          referrals[u].tasks_completed <= users[u].tasks_completed)
  /\ [][faults = 0 =>
          \A u \in DOMAIN referrals :
            referrals'[u].tasks_completed >= referrals[u].tasks_completed]_vars

=============================================================================
